---- MODULE Spec2Model ----
(***************************************************************************)
(* The VECM forecaster adapter of sktime/forecasting/vecm.py: one adapter  *)
(* instance, its constructor parameters, the fitted state it stores, and   *)
(* the fit / predict / predict_interval operations with the tables they    *)
(* return.  Numbers produced by the statsmodels delegate are kept symbolic *)
(* (a cell says which forecast step, variable and significance level it    *)
(* is), so that the reshaping done by the adapter can be checked exactly.  *)
(***************************************************************************)
EXTENDS Integers, Sequences, FiniteSets, TLC

VARIABLES
    config,              \* the constructor parameters stored on self
    y_,                  \* self._y, the training table (absent: <<>>)
    fitted_forecaster_,  \* self._fitted_forecaster, the delegate's results
                         \* (they hold self._forecaster as their model)
    is_fitted,           \* the base class's fitted flag
    result,              \* what the last operation returned or raised
    last,                \* the last operation, its inputs and delegate calls
    fitted_once          \* history: some fit on this instance has succeeded

vars == <<config, y_, fitted_forecaster_, is_fitted, result, last,
          fitted_once>>

----------------------------------------------------------------------------
(* Bounds of the model.                                                    *)

\* most columns of a training table (tables have 2..MaxCols columns)
MaxCols == 3
\* rows of a training table
MaxRows == 2
\* furthest out-of-sample offset of a horizon
MaxStep == 2
\* furthest in-sample offset of a horizon is -MaxBack
MaxBack == 2
\* most offsets in one horizon
MaxFhLen == 2

----------------------------------------------------------------------------
(* Values.                                                                 *)

\* Python's None, for the optional string-like parameters and index names.
None == "None"

\* An absent exogenous table; exogenous tables are known by a positive id.
NoX == 0

\* The labels 0, 1, 2, ... of a default (range) column index.  Column labels
\* are strings in the model; the digit strings stand for the integer labels
\* and are never used as textual names.
IntLabel == <<"0", "1", "2", "3", "4", "5">>

\* Textual column names.
NameLabel == <<"A", "B", "C", "D", "E", "F">>

Range(s) == {s[i] : i \in DOMAIN s}

SeqMax(s) == CHOOSE m \in Range(s) : \A x \in Range(s) : x <= m

SeqMin(s) == CHOOSE m \in Range(s) : \A x \in Range(s) : m <= x

Pos(s, x) == CHOOSE i \in DOMAIN s : s[i] = x

\* A row label: an integer label of a range index, or a period of a
\* period index (a period never equals an integer label).
RowLabel(kind, v) == [k |-> kind, v |-> v]

\* The training tables: 2 or more columns, default or named column labels,
\* a default range index or a period index, named or not.
Tables ==
    { [columns |-> [j \in 1..nc |-> IF named THEN NameLabel[j] ELSE IntLabel[j]],
       nrows   |-> n,
       ikind   |-> ix[1],
       istart  |-> ix[2],
       iname   |-> nm] :
        nc \in 2..MaxCols, named \in BOOLEAN, n \in {MaxRows},
        ix \in {<<"range", 0>>, <<"period", 0>>}, nm \in {None, "date"} }

\* The row labels of a training table, in row order.
RowLabels(y) == [i \in 1..y.nrows |-> RowLabel(y.ikind, y.istart + i - 1)]

\* self.cutoff: the last row label of the training table.
cutoff(y) == RowLabel(y.ikind, y.istart + y.nrows - 1)

\* The sequences over S of length at most n.
RECURSIVE SeqsUpTo(_, _)
SeqsUpTo(S, n) ==
    IF n = 0 THEN {<<>>}
    ELSE {<<>>} \cup { <<x>> \o t : x \in S, t \in SeqsUpTo(S, n - 1) }

\* Strictly increasing sequences of offsets: a forecasting horizon is an
\* ordered set of integer offsets relative to the cutoff.
Horizons ==
    { s \in SeqsUpTo((0 - MaxBack)..MaxStep, MaxFhLen) :
        /\ s # <<>>
        /\ \A i \in 1..(Len(s) - 1) : s[i] < s[i + 1] }

\* Coverage lists, in the caller's order; a coverage fraction is kept in
\* percent.
Coverages == { <<90>>, <<0>>, <<90, 50>>, <<50, 90>> }

----------------------------------------------------------------------------
(* Construction.                                                           *)

get_test_params == { [k_ar_diff |-> 1], [k_ar_diff |-> 2] }

\* VECM.__init__: every parameter is stored verbatim.
VECM(params) ==
    [dates         |-> None,
     freq          |-> None,
     missing       |-> "none",
     k_ar_diff     |-> params.k_ar_diff,
     coint_rank    |-> 1,
     deterministic |-> "n",
     seasons       |-> 0,
     first_season  |-> 0,
     method        |-> "ml",
     exog_coint    |-> None,
     exog_coint_fc |-> None]

\* What an operation returned or raised.
Returned(kind, err, index, name, columns, data) ==
    [kind |-> kind, err |-> err, index |-> index, name |-> name,
     columns |-> columns, data |-> data]

Raise(err) == Returned("error", err, <<>>, None, <<>>, <<>>)

ReturnSelf == Returned("self", None, <<>>, None, <<>>, <<>>)

Table(index, name, columns, data) ==
    Returned("table", None, index, name, columns, data)

\* The record of an operation: for a fit its exogenous table and whether
\* the instance was already fitted, for a prediction its horizon and
\* coverage list, the delegate calls it made, and which branches of
\* _predict it took.
Op(op, X, refit, fh, coverage, run) ==
    [op |-> op, X |-> X, refit |-> refit, fh |-> fh, coverage |-> coverage,
     calls |-> run.calls, insample |-> run.insample, concat |-> run.concat]

NoRun == [calls |-> <<>>, insample |-> FALSE, concat |-> FALSE]

Init ==
    /\ config \in { VECM(p) : p \in get_test_params }
    /\ y_ = <<>>
    /\ fitted_forecaster_ = <<>>
    /\ is_fitted = FALSE
    /\ result = Returned("none", None, <<>>, None, <<>>, <<>>)
    /\ last = Op("init", NoX, FALSE, <<>>, <<>>, NoRun)
    /\ fitted_once = FALSE

----------------------------------------------------------------------------
(* The statsmodels delegate, as the adapter uses it.                       *)

\* A number in a returned table, kept symbolic.
Cell(kind, row, col, p, q) == [kind |-> kind, row |-> row, col |-> col, p |-> p, q |-> q]

\* the delegate's k-th step-ahead point forecast of variable j
Forecast(k, j) == Cell("forecast", k, j, 0, 0)

\* the delegate's lower or upper bound at step k for variable j at
\* significance level alpha (in percent)
Bound(side, k, j, alpha) == Cell(side, k, j, alpha, 0)

\* training value at (row yr, column yc) minus residual at (row rr, column rc)
Fitted(yr, yc, rr, rc) == Cell("fitted", yr, yc, rr, rc)

NaN == Cell("nan", 0, 0, 0, 0)

\* _VECM(endog=y, exog=X, ...): the unfitted model built in _fit.
DelegateModel(y, X, cfg) ==
    [endog         |-> y,
     exog          |-> X,
     exog_coint    |-> cfg.exog_coint,
     dates         |-> cfg.dates,
     freq          |-> cfg.freq,
     missing       |-> cfg.missing,
     k_ar_diff     |-> cfg.k_ar_diff,
     coint_rank    |-> cfg.coint_rank,
     deterministic |-> cfg.deterministic,
     seasons       |-> cfg.seasons,
     first_season  |-> cfg.first_season]

\* self._forecaster.fit(method=...): the results object.  Its residual
\* array is aligned with the training rows: one row per training row and
\* one column per variable.
DelegateFit(model, method) ==
    [model |-> model, method |-> method, resid_rows |-> model.endog.nrows]

neqs(ff) == Len(ff.model.endog.columns)

\* results.predict(steps, exog_fc, exog_coint_fc): steps rows, one per step
\* ahead, one column per variable.
DelegatePredict(ff, steps) ==
    [k \in 1..steps |-> [j \in 1..neqs(ff) |-> Forecast(k, j)]]

\* results.predict(steps, ..., alpha): the lower or upper array of the
\* returned 3-tuple, of the same shape as the point forecast.
DelegateBounds(ff, steps, alpha, side) ==
    [k \in 1..steps |-> [j \in 1..neqs(ff) |-> Bound(side, k, j, alpha)]]

\* One call of results.predict, as the delegate sees it (alpha is -1 when
\* the call passes none).
Call(ff, steps, exog_fc, exog_coint_fc, alpha) ==
    [recv |-> ff, steps |-> steps, exog_fc |-> exog_fc,
     exog_coint_fc |-> exog_coint_fc, alpha |-> alpha]

----------------------------------------------------------------------------
(* The forecasting horizon and the base class.                             *)

\* fh.to_relative(cutoff): a horizon is given by its integer offsets from
\* the cutoff, which to_relative returns as they are.
to_relative(fh, cut) == fh

\* fh.to_absolute_index(cutoff): the time labels cutoff + offset.
to_absolute_index(fh, cut) == [i \in DOMAIN fh |-> RowLabel(cut.k, cut.v + fh[i])]

\* fh.to_indexer(cutoff): zero-based positions, offset - 1.
to_indexer(fh, cut) == [i \in DOMAIN fh |-> fh[i] - 1]

\* A base class that lets every prediction through.
check_is_fitted_never(flag) == TRUE

\* check_is_fitted of the base class: a prediction on an instance whose
\* fitted flag is not set raises NotFittedError.
check_is_fitted(flag) == flag

----------------------------------------------------------------------------
(* fit.                                                                    *)

\* A _fit that keeps the results of an earlier fit.
fit_keep_first(old, y, X, cfg, converges) ==
    IF old # <<>>
      THEN [fitted |-> old, ok |-> TRUE]
      ELSE [fitted |-> IF converges
                         THEN <<DelegateFit(DelegateModel(y, X, cfg), cfg.method)>>
                         ELSE <<>>,
            ok     |-> converges]

\* VECM._fit: build the delegate from the stored configuration and the data
\* of this call, fit it, and store the results.  When the delegate raises,
\* the error propagates and no results are stored.
fit_(old, y, X, cfg, converges) ==
    [fitted |-> IF converges
                  THEN <<DelegateFit(DelegateModel(y, X, cfg), cfg.method)>>
                  ELSE <<>>,
     ok     |-> converges]

\* fit of the forecaster interface: reset the fitted state, run _fit, and
\* when it returns remember the training table and mark the instance
\* fitted.  A fit that raises leaves the instance reset.
Fit(y, X, converges) ==
    LET r == fit_(fitted_forecaster_, y, X, config, converges)
    IN  /\ y_' = IF r.ok THEN <<y>> ELSE <<>>
        /\ fitted_forecaster_' = r.fitted
        /\ is_fitted' = r.ok
        /\ fitted_once' = (fitted_once \/ r.ok)
        /\ result' = IF r.ok THEN ReturnSelf ELSE Raise("DelegateError")
        /\ last' = Op("fit", X, is_fitted, <<>>, <<>>, NoRun)
        /\ UNCHANGED config

----------------------------------------------------------------------------
(* pandas and numpy, as far as _predict and _predict_interval use them.    *)

RECURSIVE SortInts(_)
SortInts(S) ==
    IF S = {} THEN <<>>
    ELSE LET m == CHOOSE x \in S : \A z \in S : x <= z
         IN  <<m>> \o SortInts(S \ {m})

\* The labels of b that a does not hold, in b's order.
Extra(a, b) == SelectSeq(b, LAMBDA x : x \notin Range(a))

\* Index.union as DataFrame arithmetic uses it on row labels: equal indexes
\* are kept; integer labels are united and sorted; labels of two kinds
\* cannot be sorted and are appended.
UnionRows(a, b) ==
    IF a = b THEN a
    ELSE IF \A x \in Range(a) \cup Range(b) : x.k = "range"
      THEN LET vs == SortInts({x.v : x \in Range(a) \cup Range(b)})
           IN  [i \in DOMAIN vs |-> RowLabel("range", vs[i])]
      ELSE a \o Extra(a, b)

\* Index.union on the column labels.
UnionCols(a, b) == IF a = b THEN a ELSE a \o Extra(a, b)

\* pd.DataFrame(resid): the residual array under default labels 0, 1, ...
ResidRowLabels(ff) == [i \in 1..ff.resid_rows |-> RowLabel("range", i - 1)]

ResidColLabels(ff) == [j \in 1..neqs(ff) |-> IntLabel[j]]

\* (self._y - pd.DataFrame(resid)).values: the subtraction aligns the two
\* frames on their row and column labels; a cell whose labels are not in
\* both frames is NaN.
InSample(y, ff) ==
    LET yr == RowLabels(y)
        rr == ResidRowLabels(ff)
        yc == y.columns
        rc == ResidColLabels(ff)
        rows == UnionRows(yr, rr)
        cols == UnionCols(yc, rc)
    IN  [i \in DOMAIN rows |-> [j \in DOMAIN cols |->
            IF /\ rows[i] \in Range(yr) /\ rows[i] \in Range(rr)
               /\ cols[j] \in Range(yc) /\ cols[j] \in Range(rc)
              THEN Fitted(Pos(yr, rows[i]), Pos(yc, cols[j]),
                          Pos(rr, rows[i]), Pos(rc, cols[j]))
              ELSE NaN]]

\* The number of columns of a two-dimensional array with at least one row.
Width(a) == Len(a[1])

\* np.concatenate([a, b], axis=0) of two arrays of one width.
Concatenate(a, b) == a \o b

\* Whether a[idx] is a valid numpy position of an axis of length n.
InBounds(idx, n) == (0 - n) <= idx /\ idx < n

\* a[idx, :]: the rows at the zero-based positions idx, a negative position
\* counting from the end.
Take(a, idx) ==
    [i \in DOMAIN idx |-> IF idx[i] >= 0 THEN a[idx[i] + 1] ELSE a[Len(a) + idx[i] + 1]]

\* pd.DataFrame(data, index=..., columns=...): the shape of data must be
\* the shape the labels imply.
DataFrame(data, index, name, columns) ==
    IF Len(data) # Len(index) \/ \E i \in DOMAIN data : Len(data[i]) # Len(columns)
      THEN Raise("ValueError")
      ELSE Table(index, name, columns, data)

----------------------------------------------------------------------------
(* predict.                                                                *)

\* exog_fc = X.values if X is not None else None (the array of an
\* exogenous table is known by the id of the table)
exog_fc_of(X) == IF X # NoX THEN X ELSE NoX

\* steps=fh_int[-1]: the last offset of the horizon.
steps_of(fh_int) == fh_int[Len(fh_int)]

\* the test of the out-of-sample branch
has_outsample(fh_int) == SeqMax(fh_int) > 0

\* An in-sample test that leaves out offset 0, the cutoff itself.
has_insample_strict(fh_int) == SeqMin(fh_int) < 0

\* the test of the in-sample branch
has_insample(fh_int) == SeqMin(fh_int) <= 0

\* An end of _predict that labels y_pred without selecting the rows.
select_unfiltered(y, fh, y_pred) ==
    DataFrame(y_pred, to_absolute_index(fh, cutoff(y)), y.iname, y.columns)

\* The end of _predict: y_pred[fh.to_indexer(self.cutoff), :] under the
\* horizon's absolute index, named as the training index, and the training
\* columns.
select_(y, fh, y_pred) ==
    IF \E i \in DOMAIN fh : ~InBounds(to_indexer(fh, cutoff(y))[i], Len(y_pred))
      THEN Raise("IndexError")
      ELSE DataFrame(Take(y_pred, to_indexer(fh, cutoff(y))),
                     to_absolute_index(fh, cutoff(y)), y.iname, y.columns)

\* The middle of _predict: both parts are concatenated, the out-of-sample
\* rows first, when both were computed; else the one computed is taken.
merge_(y, fh, ins, out, y_pred_insample, y_pred_outsample) ==
    IF ins /\ out
      THEN IF Width(y_pred_outsample) # Width(y_pred_insample)
             THEN Raise("ValueError")
             ELSE select_(y, fh, Concatenate(y_pred_outsample, y_pred_insample))
      ELSE select_(y, fh, IF ins THEN y_pred_insample ELSE y_pred_outsample)

\* The delegate calls of _predict and the branches it takes.
run_(ff, cfg, fh_int, X) ==
    [calls    |-> IF has_outsample(fh_int)
                    THEN <<Call(ff, steps_of(fh_int), exog_fc_of(X), cfg.exog_coint_fc,
                                0 - 1)>>
                    ELSE <<>>,
     insample |-> has_insample(fh_int),
     concat   |-> has_insample(fh_int) /\ has_outsample(fh_int)]

\* VECM._predict.
predict_(y, ff, cfg, fh, X) ==
    [result |-> merge_(y, fh,
                       has_insample(to_relative(fh, cutoff(y))),
                       has_outsample(to_relative(fh, cutoff(y))),
                       IF has_insample(to_relative(fh, cutoff(y)))
                         THEN InSample(y, ff) ELSE <<>>,
                       IF has_outsample(to_relative(fh, cutoff(y)))
                         THEN DelegatePredict(ff, steps_of(to_relative(fh, cutoff(y))))
                         ELSE <<>>),
     run    |-> run_(ff, cfg, to_relative(fh, cutoff(y)), X)]

\* The operation op returned r.result after the delegate calls of r.run.
Done(op, fh, coverage, r) ==
    /\ result' = r.result
    /\ last' = Op(op, NoX, FALSE, fh, coverage, r.run)

\* predict of the forecaster interface: the fitted-state check of the base
\* class, then _predict.  Reading a fitted attribute that was never set is
\* an AttributeError.
Predict(fh, X) ==
    /\ IF ~check_is_fitted(is_fitted)
         THEN Done("predict", fh, <<>>, [result |-> Raise("NotFittedError"), run |-> NoRun])
         ELSE IF y_ = <<>> \/ fitted_forecaster_ = <<>>
         THEN Done("predict", fh, <<>>, [result |-> Raise("AttributeError"), run |-> NoRun])
         ELSE Done("predict", fh, <<>>,
                   predict_(y_[1], fitted_forecaster_[1], config, fh, X))
    /\ UNCHANGED <<config, y_, fitted_forecaster_, is_fitted, fitted_once>>

----------------------------------------------------------------------------
(* predict_interval.                                                       *)

Sides == <<"lower", "upper">>

\* var_names: the index name when the training index has one (a single
\* string, not a list), else the column labels.
var_names_of(y) ==
    IF y.iname # None
      THEN [list |-> FALSE, items |-> <<y.iname>>]
      ELSE [list |-> TRUE, items |-> y.columns]

\* The column label (variable, coverage, side).
ColLabel(v, c, s) == [var |-> v, cov |-> c, side |-> s]

\* pd.MultiIndex.from_product([a, b, c]): the labels with the first level
\* slowest and the last level fastest, each level in the order given.
from_product(a, b, c) ==
    [p \in 1..(Len(a) * Len(b) * Len(c)) |->
        ColLabel(a[((p - 1) \div (Len(b) * Len(c))) + 1],
                 b[(((p - 1) \div Len(c)) % Len(b)) + 1],
                 c[((p - 1) % Len(c)) + 1])]

\* alpha = 1 - c
alpha_of(c) == 100 - c

\* the row of the lower and upper arrays that is read: y_lower[0]
bound_row(steps) == 1

\* all_values: for each coverage in turn, for each variable in turn, the
\* lower and then the upper bound.
all_values_of(ff, steps, coverage, nvars) ==
    [q \in 1..(Len(coverage) * nvars * 2) |->
        LET c     == coverage[((q - 1) \div (nvars * 2)) + 1]
            v_idx == (((q - 1) \div 2) % nvars) + 1
            side  == Sides[((q - 1) % 2) + 1]
        IN  DelegateBounds(ff, steps, alpha_of(c), side)[bound_row(steps)][v_idx]]

\* VECM._predict_interval.
predict_interval_(y, ff, cfg, fh, X, coverage) ==
    LET exog_fc   == exog_fc_of(X)
        fh_int    == to_relative(fh, cutoff(y))
        var_names == var_names_of(y)
        steps     == steps_of(fh_int)
        calls     == [i \in DOMAIN coverage |->
                        Call(ff, steps, exog_fc, cfg.exog_coint_fc, alpha_of(coverage[i]))]
    IN  IF ~var_names.list
          THEN [result |-> Raise("TypeError"), run |-> NoRun]
          ELSE [result |-> DataFrame(
                               <<all_values_of(ff, steps, coverage, Len(var_names.items))>>,
                               to_absolute_index(fh, cutoff(y)), None,
                               from_product(var_names.items, coverage, Sides)),
                run    |-> [calls |-> calls, insample |-> FALSE, concat |-> FALSE]]

\* predict_interval of the forecaster interface, for horizons of positive
\* offsets (in-sample intervals are not a declared capability).
PredictInterval(fh, X, coverage) ==
    /\ \A i \in DOMAIN fh : fh[i] > 0
    /\ IF ~check_is_fitted(is_fitted)
         THEN Done("predict_interval", fh, coverage,
                   [result |-> Raise("NotFittedError"), run |-> NoRun])
         ELSE IF y_ = <<>> \/ fitted_forecaster_ = <<>>
         THEN Done("predict_interval", fh, coverage,
                   [result |-> Raise("AttributeError"), run |-> NoRun])
         ELSE Done("predict_interval", fh, coverage,
                   predict_interval_(y_[1], fitted_forecaster_[1], config, fh, X, coverage))
    /\ UNCHANGED <<config, y_, fitted_forecaster_, is_fitted, fitted_once>>

----------------------------------------------------------------------------

\* The exogenous tables a caller may pass to a prediction: future values
\* of the exogenous series are passed exactly when the delegate was fitted
\* with an exogenous series.
FutureX ==
    IF fitted_forecaster_ = <<>> THEN {NoX, 1}
    ELSE IF fitted_forecaster_[1].model.exog = NoX THEN {NoX} ELSE {1}

Next ==
    \/ \E y \in Tables, X \in {NoX, 1}, converges \in BOOLEAN : Fit(y, X, converges)
    \/ \E fh \in Horizons, X \in FutureX : Predict(fh, X)
    \/ \E fh \in Horizons, X \in FutureX, coverage \in Coverages :
          PredictInterval(fh, X, coverage)

Spec == Init /\ [][Next]_vars

----------------------------------------------------------------------------
(* The claims.                                                             *)

\* The training table and the fitted delegate of a fitted instance.
TrainY == y_[1]

FittedModel == fitted_forecaster_[1]

NCols == Len(TrainY.columns)

\* The last operation was a predict on a fitted instance.
PredictRan == last.op = "predict" /\ is_fitted

\* The last operation was a predict_interval on a fitted instance.
IntervalRan == last.op = "predict_interval" /\ is_fitted

\* The absolute time label of offset k: k steps after the last training row.
AbsLabel(k) == [k |-> TrainY.ikind, v |-> TrainY.istart + TrainY.nrows - 1 + k]

\* The one-based training row that offset k <= 0 refers to.
TrainRow(k) == TrainY.nrows + k

\* C1: after fit, predict with a horizon of positive offsets returns a
\* table with len(fh) rows, the training table's column names, the
\* horizon's absolute time labels in the requested order as index, and in
\* the row of offset k the delegate's k-th step-ahead forecast.
C1_FuturePredict ==
    (PredictRan /\ \A i \in DOMAIN last.fh : last.fh[i] > 0) =>
        /\ result.kind = "table"
        /\ Len(result.data) = Len(last.fh)
        /\ Len(result.index) = Len(last.fh)
        /\ result.columns = TrainY.columns
        /\ \A i \in DOMAIN last.fh :
              /\ result.index[i] = AbsLabel(last.fh[i])
              /\ Len(result.data[i]) = NCols
              /\ \A j \in 1..NCols : result.data[i][j] = Forecast(last.fh[i], j)

\* C1 witness: a forecast of step 2 alone, on a table with named columns
\* and a named period index, returned the second step-ahead forecast.
C1_Witness ==
    /\ PredictRan
    /\ last.fh = <<2>>
    /\ TrainY.columns[1] = "A"
    /\ TrainY.ikind = "period"
    /\ TrainY.iname = "date"
    /\ result.kind = "table"
    /\ result.data[1][NCols] = Forecast(2, NCols)

\* C2 (as claimed): for a horizon of offsets <= 0 within the training rows,
\* predict returns, for each offset and training column, the training
\* value minus the residual at the same row and column position.
C2_InSampleByPosition ==
    (/\ PredictRan
     /\ \A i \in DOMAIN last.fh : last.fh[i] <= 0 /\ TrainRow(last.fh[i]) >= 1) =>
        /\ result.kind = "table"
        /\ \A i \in DOMAIN last.fh : \A j \in 1..NCols :
              result.data[i][j] =
                  Fitted(TrainRow(last.fh[i]), j, TrainRow(last.fh[i]), j)

\* C3 (as claimed): for a horizon mixing offsets <= 0 (within the training
\* rows) and offsets > 0, the i-th returned row is the in-sample fitted
\* value of the training row at offset fh[i] when fh[i] <= 0 and the
\* fh[i]-th step-ahead forecast when fh[i] > 0.
C3_MixedRowOrder ==
    (/\ PredictRan
     /\ \E i \in DOMAIN last.fh : last.fh[i] <= 0
     /\ \E i \in DOMAIN last.fh : last.fh[i] > 0
     /\ \A i \in DOMAIN last.fh : last.fh[i] <= 0 => TrainRow(last.fh[i]) >= 1) =>
        /\ result.kind = "table"
        /\ last.concat
        /\ \A i \in DOMAIN last.fh : \A j \in 1..NCols :
              result.data[i][j] =
                  IF last.fh[i] <= 0
                    THEN Fitted(TrainRow(last.fh[i]), j, TrainRow(last.fh[i]), j)
                    ELSE Forecast(last.fh[i], j)

\* C4 (as claimed): the column index of the predict_interval output is the
\* product (variable, coverage, side), variables in training column order
\* and slowest, coverages in the caller's order, lower before upper and
\* fastest, whether or not the training index has a name.  Stated for
\* horizons of one offset.
C4_ProductColumns ==
    (IntervalRan /\ Len(last.fh) = 1) =>
        /\ result.kind = "table"
        /\ Len(result.columns) = NCols * Len(last.coverage) * 2
        /\ \A v \in 1..NCols : \A c \in DOMAIN last.coverage : \A sd \in 1..2 :
              result.columns[((v - 1) * Len(last.coverage) + (c - 1)) * 2 + sd] =
                  [var  |-> TrainY.columns[v],
                   cov  |-> last.coverage[c],
                   side |-> IF sd = 1 THEN "lower" ELSE "upper"]

\* C5 (as claimed): in every table predict_interval returns, the entry
\* under the column label (v, c, s) is the delegate's s-bound for variable
\* v at significance level 1 - c.
C5_EntriesMatchLabels ==
    (IntervalRan /\ result.kind = "table") =>
        \A p \in DOMAIN result.columns :
            /\ result.data[1][p].kind = result.columns[p].side
            /\ result.data[1][p].col = Pos(TrainY.columns, result.columns[p].var)
            /\ result.data[1][p].p = 100 - result.columns[p].cov

\* C6 (as claimed): for every horizon of positive offsets and every
\* coverage list, predict_interval returns one row, indexed by the
\* furthest time point of the horizon, holding the bounds at the furthest
\* requested step.  Stated for training tables whose index has no name.
C6_OneRowAtFurthestStep ==
    (IntervalRan /\ TrainY.iname = None) =>
        /\ result.kind = "table"
        /\ Len(result.data) = 1
        /\ result.index = <<AbsLabel(SeqMax(last.fh))>>
        /\ \A p \in DOMAIN result.data[1] : result.data[1][p].row = SeqMax(last.fh)

\* C7: a predict or predict_interval on an instance on which no fit has
\* succeeded raises NotFittedError: it returns no table and raises no
\* AttributeError.
C7_NotFitted ==
    (last.op \in {"predict", "predict_interval"} /\ ~fitted_once) =>
        /\ result.kind = "error"
        /\ result.err = "NotFittedError"

\* C7 witness: a predict_interval before any successful fit raised
\* NotFittedError.
C7_Witness ==
    /\ last.op = "predict_interval"
    /\ ~fitted_once
    /\ result.err = "NotFittedError"

\* C8: every successful fit, also on a fitted instance, stores the results
\* of a delegate built from the stored configuration and the tables of
\* that call and nothing of an earlier fit; a prediction leaves the fitted
\* state alone and calls the delegate results stored by the latest fit; no
\* operation changes the stored configuration.
C8_FitOverwrites ==
    [][/\ config' = config
       /\ (last'.op = "fit" /\ result'.kind = "self") =>
             /\ is_fitted'
             /\ fitted_forecaster_' =
                   <<[model  |-> [endog         |-> y_'[1],
                                  exog          |-> last'.X,
                                  exog_coint    |-> config.exog_coint,
                                  dates         |-> config.dates,
                                  freq          |-> config.freq,
                                  missing       |-> config.missing,
                                  k_ar_diff     |-> config.k_ar_diff,
                                  coint_rank    |-> config.coint_rank,
                                  deterministic |-> config.deterministic,
                                  seasons       |-> config.seasons,
                                  first_season  |-> config.first_season],
                      method |-> config.method,
                      resid_rows |-> y_'[1].nrows]>>
       /\ last'.op \in {"predict", "predict_interval"} =>
             /\ fitted_forecaster_' = fitted_forecaster_
             /\ y_' = y_
             /\ \A i \in DOMAIN last'.calls :
                   last'.calls[i].recv = fitted_forecaster_[1]]_vars

\* C8 witness: a fit on an already fitted instance succeeded, and the
\* stored results are those of the table of that fit.
C8_Witness ==
    /\ last.op = "fit"
    /\ last.refit
    /\ result.kind = "self"
    /\ FittedModel.model.endog = TrainY
    /\ FittedModel.model.k_ar_diff = 2

\* C9 (as claimed): a predict asked for an in-sample offset further back
\* than the reconstructed in-sample rows raises an error, for in-sample
\* and for mixed horizons.
C9_BeyondInSampleIsError ==
    (/\ PredictRan
     /\ \E i \in DOMAIN last.fh :
           last.fh[i] <= 0 /\ 1 - last.fh[i] > Len(InSample(TrainY, FittedModel))) =>
        result.kind = "error"

\* C10: predict calls the delegate's forecast routine exactly when some
\* offset is positive, once, with steps equal to the largest offset and no
\* alpha; it reconstructs in-sample values exactly when some offset is
\* <= 0; and it concatenates exactly when the horizon has both kinds.
C10_Branches ==
    PredictRan =>
        /\ (last.calls # <<>>) = (\E i \in DOMAIN last.fh : last.fh[i] > 0)
        /\ Len(last.calls) <= 1
        /\ \A i \in DOMAIN last.calls :
              /\ last.calls[i].steps = SeqMax(last.fh)
              /\ last.calls[i].alpha = 0 - 1
        /\ last.insample = (\E i \in DOMAIN last.fh : last.fh[i] <= 0)
        /\ last.concat = (/\ \E i \in DOMAIN last.fh : last.fh[i] <= 0
                          /\ \E i \in DOMAIN last.fh : last.fh[i] > 0)

\* C10 witness: a predict over the horizon (-1, 2) called the delegate once
\* for 2 steps, reconstructed the in-sample rows and concatenated; and it
\* returned a table.
C10_Witness ==
    /\ PredictRan
    /\ last.fh = <<0 - 1, 2>>
    /\ Len(last.calls) = 1
    /\ last.calls[1].steps = 2
    /\ last.insample
    /\ last.concat
    /\ result.kind = "table"

====
